---- MODULE Spec2Model ----
(***************************************************************************)
(* pickup-news (main.go): one run of HandleRequest.                        *)
(*                                                                         *)
(* Strings are sequences of one-character strings, so that concatenation,  *)
(* strconv.Itoa and Time.Format are computed character by character.       *)
(* The run is a sequence of steps: Start (env + initRequestParameter),     *)
(* LoadPickupKeys, then per keyword QueryNews and NotificationSlack, and   *)
(* ReturnSuccess after the loop.  The outside world (clock, blob store)    *)
(* is fixed in Init; HTTP responses are chosen at each request.            *)
(***************************************************************************)
EXTENDS Integers, Sequences, FiniteSets, TLC

VARIABLES
    now,      \* the clock: hours since 1970-01-01T00:00Z
    s3,       \* what the blob store holds under the bucket and key
    req,      \* the invocation payload
    rp,       \* HandleRequest's RequestParameter
    keys,     \* *keys, the list of PickupKey
    fetches,  \* number of GetObject calls made
    run,      \* the run: position, loop index, local values, history
    twin      \* the same run, had every response carried status 200

vars == <<now, s3, req, rp, keys, fetches, run, twin>>

---------------------------------------------------------------------------
(* Bounds of the model *)

MaxKeys == 2       \* longest keyword list held by the blob
MaxArticles == 2   \* longest article list in a news API response

---------------------------------------------------------------------------
(* Program constants *)

StatusOK == 200
JSTOffsetHours == 9

NewsAPIURL == "http://newsapi.org/v2/everything"

\* Env, as filled by envconfig.Process
env == [Apikey |-> <<"k", "1">>, WebhookURL |-> <<"h", "k">>]

---------------------------------------------------------------------------
(* Strings *)

RECURSIVE Concat(_)
Concat(ss) == IF ss = <<>> THEN <<>> ELSE Head(ss) \o Concat(Tail(ss))

Digit(d) == <<"0", "1", "2", "3", "4", "5", "6", "7", "8", "9">>[d + 1]

RECURSIVE Digits(_)
Digits(n) == IF n < 10 THEN <<Digit(n)>> ELSE Digits(n \div 10) \o <<Digit(n % 10)>>

\* strconv.Itoa, and fmt's %d
Itoa(n) == IF n < 0 THEN <<"-">> \o Digits(0 - n) ELSE Digits(n)

---------------------------------------------------------------------------
(* package time: the instant is a count of hours since 1970-01-01T00:00Z   *)

\* days since 1970-01-01 of a proleptic Gregorian date; the day may lie
\* outside the month (time.Date normalises it)
DaysFromCivil(y, m, d) ==
    LET yy  == IF m <= 2 THEN y - 1 ELSE y
        era == yy \div 400
        yoe == yy - era * 400
        mp  == (m + 9) % 12
        doy == (153 * mp + 2) \div 5 + d - 1
        doe == yoe * 365 + yoe \div 4 - yoe \div 100 + doy
    IN  era * 146097 + doe - 719468

\* the date of a day count
CivilFromDays(z) ==
    LET zz  == z + 719468
        era == zz \div 146097
        doe == zz - era * 146097
        yoe == (doe - doe \div 1460 + doe \div 36524 - doe \div 146096) \div 365
        doy == doe - (365 * yoe + yoe \div 4 - yoe \div 100)
        mp  == (5 * doy + 2) \div 153
        d   == doy - (153 * mp + 2) \div 5 + 1
        m   == IF mp < 10 THEN mp + 3 ELSE mp - 9
        y   == yoe + era * 400 + (IF m <= 2 THEN 1 ELSE 0)
    IN  [year |-> y, month |-> m, day |-> d]

UnixHour(y, m, d, h) == DaysFromCivil(y, m, d) * 24 + h

\* t.In(loc): the wall clock of instant t at a fixed offset
In(t, offset) ==
    LET local == t + offset
    IN  CivilFromDays(local \div 24) @@ [hour |-> local % 24]

\* t.AddDate(0, 0, days) on a wall clock: time.Date of the shifted day
AddDate(w, days) ==
    CivilFromDays(DaysFromCivil(w.year, w.month, w.day + days)) @@ [hour |-> w.hour]

Pad2(n) == IF n < 10 THEN <<"0">> \o Digits(n) ELSE Digits(n)

Pad4(n) ==
    IF n < 10 THEN <<"0", "0", "0">> \o Digits(n)
    ELSE IF n < 100 THEN <<"0", "0">> \o Digits(n)
    ELSE IF n < 1000 THEN <<"0">> \o Digits(n)
    ELSE Digits(n)

\* w.Format("2006-01-02")
Format(w) == Pad4(w.year) \o <<"-">> \o Pad2(w.month) \o <<"-">> \o Pad2(w.day)


---------------------------------------------------------------------------
(* Literals of the program *)

HeaderKeyword == <<"<", "!", "c", "h", "a", "n", "n", "e", "l", ">", " ", "K", "e", "y", "w", "o", "r", "d", ":", " ">>
HeaderResultCount == <<" ", "r", "e", "s", "u", "l", "t", "C", "o", "u", "n", "t", ":", " ">>
HeaderFrom == <<" ", "f", "r", "o", "m", ":", " ">>
HeaderTo == <<" ", "t", "o", ":", " ">>
LowerTotal == <<"T", "o", "t", "a", "l", "R", "e", "s", "u", "l", "t", " ", "i", "s", " ", "l", "o", "w", "e", "r", " ", "N", "o", "t", "i", "c", "e", "L", "o", "w", "e", "r", "L", "i", "m", "i", "t", ".", " ", "T", "o", "t", "a", "l", "R", "e", "s", "u", "l", "t", ":">>
LowerLimit == <<",", " ", "N", "o", "t", "i", "c", "e", "L", "o", "w", "e", "r", "L", "i", "m", "i", "t", ":">>
SuccessNotification == <<"S", "u", "c", "c", "e", "s", "s", " ", "n", "o", "t", "i", "f", "i", "c", "a", "t", "i", "o", "n", ".">>
NoDot == <<"N", "o", ".">>
CommaSpace == <<",", " ">>
NL == <<"\n">>

---------------------------------------------------------------------------
(* Inputs: the request, the clock, the blob store, the HTTP responses *)

Nows ==
    { UnixHour(2024, 2, 29, 14), UnixHour(2024, 2, 29, 15),
      UnixHour(2023, 12, 31, 15), UnixHour(2023, 2, 28, 20) }

Froms == { <<>>, <<"2", "0", "2", "0", "-", "0", "2", "-", "2", "8">> }
Tos == { <<>>, <<"2", "0", "2", "0", "-", "0", "3", "-", "0", "1">> }
BucketNames == { <<>>, <<"b">> }
ObjectKeys == { <<>>, <<"o">> }
Keywords == { <<"g", "o">> }
Limits == { 0 - 3, 1 }
Totals == { 0 - 3, 1, 12 }

\* the invocation payloads: one that names a blob carries no inline rule
\* (its Keyword and NoticeLowerLimit are Go's zero values)
Requests ==
    { r \in [From : Froms, To : Tos, S3BacketName : BucketNames,
             S3ObjectKey : ObjectKeys, Keyword : Keywords \cup { <<>> },
             NoticeLowerLimit : Limits \cup { 0 }] :
        IF r.S3BacketName # <<>> /\ r.S3ObjectKey # <<>>
        THEN r.Keyword = <<>> /\ r.NoticeLowerLimit = 0
        ELSE r.Keyword \in Keywords /\ r.NoticeLowerLimit \in Limits }

\* JSON objects of the keyword blob: fields may be missing or unknown
BlobObjects ==
    { [keyword |-> <<"a", "i">>, noticeLowerLimit |-> 1, memo |-> <<"x">>],
      [keyword |-> <<"g", "o">>] }

RECURSIVE SeqsUpTo(_, _)
SeqsUpTo(S, n) ==
    IF n = 0 THEN { <<>> }
    ELSE LET shorter == SeqsUpTo(S, n - 1)
         IN  shorter \cup { Append(q, x) : q \in shorter, x \in S }

\* what GetObject finds under bucket and key
Blobs ==
    { [kind |-> "error"], [kind |-> "malformed"], [kind |-> "null"] }
    \cup { [kind |-> "array", items |-> q] : q \in SeqsUpTo(BlobObjects, MaxKeys) }

\* the n-th article object of the news feed
ArticleAt(n) ==
    CASE n % 3 = 1 -> [title |-> <<"t", "1">>, url |-> <<"u", "1">>, author |-> <<"x">>]
      [] n % 3 = 2 -> [title |-> <<"t", "2">>, url |-> <<"u", "2">>]
      [] OTHER     -> [title |-> <<"t", "1">>, url |-> <<"u", "3">>]

Feed(n) == [j \in 1..n |-> ArticleAt(j)]

\* bodies the news API may send
NewsBodies ==
    { [kind |-> "malformed"], [kind |-> "null"],
      [kind |-> "object", json |-> [status |-> "error"]] }
    \cup { [kind |-> "object", json |-> [totalResults |-> t, articles |-> <<>>]] :
             t \in Totals }
    \cup { [kind |-> "object", json |-> [totalResults |-> 12, articles |-> Feed(n)]] :
             n \in 1..MaxArticles }

Statuses == { StatusOK, 404 }

\* outcomes of client.Do and ioutil.ReadAll for the news API
NewsResponses ==
    { [transport |-> "error", status |-> s, read |-> "error", body |-> [kind |-> "malformed"]] :
        s \in Statuses }
    \cup { [transport |-> "ok", status |-> s, read |-> "error", body |-> [kind |-> "malformed"]] :
        s \in Statuses }
    \cup { [transport |-> "ok", status |-> s, read |-> "ok", body |-> b] :
        s \in Statuses, b \in NewsBodies }

\* outcomes of http.NewRequest and client.Do for the webhook
WebhookResponses ==
    { [request |-> "error", transport |-> "error", status |-> s] : s \in Statuses }
    \cup { [request |-> "ok", transport |-> t, status |-> s] :
        t \in {"ok", "error"}, s \in Statuses }

---------------------------------------------------------------------------
(* The run of HandleRequest *)

\* pc: position; i: index of the loop (from 1); status, hookStatus: the
\* resp.StatusCode last seen by HandleRequest and by notificationSlack; printed: fmt.Println(err) was reached; open: response
\* bodies not closed; log: the requests, decodings and notifier calls so far
InitRun ==
    [pc |-> "start", i |-> 0, log |-> <<>>, message |-> <<>>, status |-> 0,
     hookStatus |-> 0,
     printed |-> FALSE, open |-> {}, ret |-> <<>>, err |-> "unset"]

\* variant: the failure is printed but the process does not exit
ExitReturns(st) == st

\* os.Exit(1): the process ends, deferred calls do not run
Exit(st) == [st EXCEPT !.pc = "exited"]

\* fmt.Println(err); os.Exit(1)
Fatal(st) == Exit([st EXCEPT !.printed = TRUE])

\* variant: the bodies are never closed
ClosedNever(open, frame) == open

\* the deferred resp.Body.Close() calls of a function ("news": HandleRequest,
\* "hook": notificationSlack) run when it returns or panics
Closed(open, frame) == { b \in open : b[1] # frame }

\* return of HandleRequest
Return(st, s) ==
    [st EXCEPT !.pc = "returned", !.ret = s, !.err = "nil",
               !.open = Closed(@, "news")]

\* a nil dereference panics and unwinds HandleRequest
Panic(st) == [st EXCEPT !.pc = "panicked", !.open = Closed(@, "news")]

\* variant: a status other than 200 ends the run
ProceedsOnlyOK(status) == status = StatusOK

\* whether the run goes on after a response of this status: the branch on
\* StatusCode != 200 only prints a line
Proceeds(status) == TRUE

\* variant: the dates are taken in UTC, not in the UTC+9 zone
initRequestParameterUTC(r, t) ==
    LET w == In(t, 0)
    IN  [r EXCEPT !.From = IF @ = <<>> THEN Format(AddDate(w, 0 - 1)) ELSE @,
                  !.To   = IF @ = <<>> THEN Format(w) ELSE @]

initRequestParameter(r, t) ==
    LET w == In(t, JSTOffsetHours)
    IN  [r EXCEPT !.From = IF @ = <<>> THEN Format(AddDate(w, 0 - 1)) ELSE @,
                  !.To   = IF @ = <<>> THEN Format(w) ELSE @]

StartStep(st, envErr) == IF envErr THEN Fatal(st) ELSE [st EXCEPT !.pc = "load"]

\* json.Unmarshal of one array element into a PickupKey
DecodePickupKey(obj) ==
    [Keyword          |-> IF "keyword" \in DOMAIN obj THEN obj.keyword ELSE <<>>,
     NoticeLowerLimit |-> IF "noticeLowerLimit" \in DOMAIN obj
                          THEN obj.noticeLowerLimit ELSE 0]

DecodePickupKeys(items) == [j \in 1..Len(items) |-> DecodePickupKey(items[j])]

\* variant: the inline rule is used only when both names are empty
InlineBothEmpty(r) == r.S3BacketName = <<>> /\ r.S3ObjectKey = <<>>

Inline(r) == r.S3BacketName = <<>> \/ r.S3ObjectKey = <<>>

\* the list, whether the process exited, and whether GetObject was called
loadPickupKeys(r, blob) ==
    IF Inline(r)
    THEN [exit |-> FALSE, fetched |-> FALSE,
          keys |-> << [Keyword |-> r.Keyword, NoticeLowerLimit |-> r.NoticeLowerLimit] >>]
    ELSE CASE blob.kind = "error"     -> [exit |-> TRUE, fetched |-> TRUE, keys |-> <<>>]
           [] blob.kind = "malformed" -> [exit |-> TRUE, fetched |-> TRUE, keys |-> <<>>]
           [] blob.kind = "null"      -> [exit |-> FALSE, fetched |-> TRUE, keys |-> <<>>]
           [] OTHER -> [exit |-> FALSE, fetched |-> TRUE,
                        keys |-> DecodePickupKeys(blob.items)]

LoadStep(st, loaded) ==
    IF loaded.exit THEN Fatal(st) ELSE [st EXCEPT !.pc = "loop", !.i = 1]

\* json.Unmarshal of an article object: the fields the run reads
DecodeArticle(a) ==
    [Title |-> IF "title" \in DOMAIN a THEN a.title ELSE <<>>,
     URL   |-> IF "url" \in DOMAIN a THEN a.url ELSE <<>>]

\* json.Unmarshal(body, &naResp) of a JSON object
DecodeNews(json) ==
    [TotalResults |-> IF "totalResults" \in DOMAIN json THEN json.totalResults ELSE 0,
     Articles     |-> IF "articles" \in DOMAIN json
                      THEN [j \in 1..Len(json.articles) |-> DecodeArticle(json.articles[j])]
                      ELSE <<>>]

MessageHeader(key, total, p) ==
    HeaderKeyword \o key.Keyword \o HeaderResultCount \o Itoa(total)
    \o HeaderFrom \o p.From \o HeaderTo \o p.To \o NL

\* variant: the lines are numbered from 0
ArticleLineFromZero(i, article) ==
    NoDot \o Itoa(i) \o CommaSpace \o article.Title \o CommaSpace \o article.URL \o NL

ArticleLine(i, article) ==
    NoDot \o Itoa(i + 1) \o CommaSpace \o article.Title \o CommaSpace \o article.URL \o NL

\* the loop over naResp.Articles; i counts from 0 as range does
MessageDetail(articles) ==
    Concat([j \in 1..Len(articles) |-> ArticleLine(j - 1, articles[j])])

LowerMessage(total, limit) ==
    LowerTotal \o Itoa(total) \o LowerLimit \o Itoa(limit) \o NL

Values(key, p) ==
    [qInTitle |-> key.Keyword, from |-> p.From, to |-> p.To, apiKey |-> env.Apikey]

\* variant: a count equal to the threshold is notified
CompareStrict(st, key, p, naResp) ==
    IF naResp.TotalResults < key.NoticeLowerLimit
    THEN Return(st, LowerMessage(naResp.TotalResults, key.NoticeLowerLimit))
    ELSE [st EXCEPT !.pc = "notify",
                    !.message = MessageHeader(key, naResp.TotalResults, p)
                                \o MessageDetail(naResp.Articles)]

\* variant: a rule at or below its threshold is skipped and the loop goes on
CompareContinue(st, key, p, naResp) ==
    IF naResp.TotalResults <= key.NoticeLowerLimit
    THEN [st EXCEPT !.pc = "loop", !.i = @ + 1]
    ELSE [st EXCEPT !.pc = "notify",
                    !.message = MessageHeader(key, naResp.TotalResults, p)
                                \o MessageDetail(naResp.Articles)]

\* the threshold test and the message of one keyword
Compare(st, key, p, naResp) ==
    IF naResp.TotalResults <= key.NoticeLowerLimit
    THEN Return(st, LowerMessage(naResp.TotalResults, key.NoticeLowerLimit))
    ELSE [st EXCEPT !.pc = "notify",
                    !.message = MessageHeader(key, naResp.TotalResults, p)
                                \o MessageDetail(naResp.Articles)]

\* one iteration of the loop up to the call of notificationSlack
QueryStep(st, key, p, resp) ==
    LET asked == [st EXCEPT !.log = Append(@, [op |-> "query", i |-> st.i,
                                               url |-> NewsAPIURL,
                                               values |-> Values(key, p)])]
    IN  IF resp.transport = "error" THEN Fatal(asked)
        ELSE LET got == [asked EXCEPT !.status = resp.status,
                                      !.open = @ \cup { <<"news", st.i>> }]
             IN  IF ~Proceeds(resp.status) \/ resp.read = "error" THEN Fatal(got)
                 ELSE CASE resp.body.kind = "malformed" -> Fatal(got)
                        [] resp.body.kind = "null" -> Panic(got)
                        [] OTHER ->
                            LET naResp == DecodeNews(resp.body.json)
                            IN  Compare([got EXCEPT !.log =
                                           Append(@, [op |-> "decoded", i |-> st.i,
                                                      naResp |-> naResp])],
                                        key, p, naResp)

\* variant: a failed webhook request is printed and the loop goes on
NotifyStepNoExit(st, w) ==
    LET called == [st EXCEPT !.log = Append(@, [op |-> "notify", i |-> st.i,
                                                message |-> st.message]),
                             !.message = <<>>]
    IN  IF w.request = "error" \/ w.transport = "error"
        THEN [called EXCEPT !.printed = TRUE, !.pc = "loop", !.i = @ + 1]
        ELSE [called EXCEPT !.hookStatus = w.status, !.pc = "loop", !.i = @ + 1]

\* notificationSlack(env, message), and the end of the iteration
NotifyStep(st, w) ==
    LET called == [st EXCEPT !.log = Append(@, [op |-> "notify", i |-> st.i,
                                                message |-> st.message]),
                             !.message = <<>>]
    IN  IF w.request = "error" \/ w.transport = "error" THEN Fatal(called)
        ELSE LET got == [called EXCEPT !.hookStatus = w.status,
                                       !.open = @ \cup { <<"hook", st.i>> }]
             IN  IF ~Proceeds(w.status) THEN Fatal(got)
                 ELSE [got EXCEPT !.open = Closed(@, "hook"),
                                  !.pc = "loop", !.i = @ + 1]

---------------------------------------------------------------------------
(* Specification *)

Init ==
    /\ now \in Nows
    /\ s3 \in Blobs
    /\ req \in Requests
    /\ rp = req
    /\ keys = <<>>
    /\ fetches = 0
    /\ run = InitRun
    /\ twin = InitRun

Start ==
    /\ run.pc = "start"
    /\ \E envErr \in BOOLEAN :
         /\ run' = StartStep(run, envErr)
         /\ twin' = StartStep(twin, envErr)
         /\ rp' = IF envErr THEN rp ELSE initRequestParameter(rp, now)
    /\ UNCHANGED <<now, s3, req, keys, fetches>>

LoadPickupKeys ==
    /\ run.pc = "load"
    /\ LET loaded == loadPickupKeys(rp, s3)
       IN  /\ keys' = loaded.keys
           /\ fetches' = IF loaded.fetched THEN fetches + 1 ELSE fetches
           /\ run' = LoadStep(run, loaded)
           /\ twin' = LoadStep(twin, loaded)
    /\ UNCHANGED <<now, s3, req, rp>>

QueryNews ==
    /\ run.pc = "loop"
    /\ run.i <= Len(keys)
    /\ \E resp \in NewsResponses :
         /\ run' = QueryStep(run, keys[run.i], rp, resp)
         /\ twin' = QueryStep(twin, keys[run.i], rp, [resp EXCEPT !.status = StatusOK])
    /\ UNCHANGED <<now, s3, req, rp, keys, fetches>>

NotificationSlack ==
    /\ run.pc = "notify"
    /\ \E w \in WebhookResponses :
         /\ run' = NotifyStep(run, w)
         /\ twin' = NotifyStep(twin, [w EXCEPT !.status = StatusOK])
    /\ UNCHANGED <<now, s3, req, rp, keys, fetches>>

ReturnSuccess ==
    /\ run.pc = "loop"
    /\ run.i > Len(keys)
    /\ run' = Return(run, SuccessNotification)
    /\ twin' = Return(twin, SuccessNotification)
    /\ UNCHANGED <<now, s3, req, rp, keys, fetches>>

Next == Start \/ LoadPickupKeys \/ QueryNews \/ NotificationSlack \/ ReturnSuccess

Spec == Init /\ [][Next]_vars

---------------------------------------------------------------------------
(* Reading the history of the run *)

Entries(op) == SelectSeq(run.log, LAMBDA e : e.op = op)

CallsFor(i) == SelectSeq(run.log, LAMBDA e : e.op = "notify" /\ e.i = i)

Terminated == run.pc \in {"returned", "exited", "panicked"}

\* the decodings at or below, and above, the threshold of their rule
Below(d) == d.op = "decoded" /\ d.naResp.TotalResults <= keys[d.i].NoticeLowerLimit
Above(d) == d.op = "decoded" /\ d.naResp.TotalResults > keys[d.i].NoticeLowerLimit

\* what the run shows apart from the status codes it received
Observable(st) == [f \in DOMAIN st \ {"status", "hookStatus"} |-> st[f]]

---------------------------------------------------------------------------
(* C1 *)

\* C1: when HandleRequest returns, every rule of the list has been queried
\* and decoded exactly once, in list order.
C1_EveryRuleProcessedOnce ==
    run.pc = "returned" =>
        /\ Len(Entries("query")) = Len(keys)
        /\ Len(Entries("decoded")) = Len(keys)
        /\ \A j \in 1..Len(keys) :
             /\ Entries("query")[j].i = j
             /\ Entries("query")[j].values.qInTitle = keys[j].Keyword
             /\ Entries("decoded")[j].i = j

---------------------------------------------------------------------------
(* C2 *)

RECURSIVE NumberedLines(_, _)
NumberedLines(articles, n) ==
    IF articles = <<>> THEN <<>>
    ELSE NoDot \o Itoa(n) \o CommaSpace \o Head(articles).Title \o CommaSpace
         \o Head(articles).URL \o NL \o NumberedLines(Tail(articles), n + 1)

ExpectedMessage(d) ==
    HeaderKeyword \o keys[d.i].Keyword \o HeaderResultCount
    \o Itoa(d.naResp.TotalResults) \o HeaderFrom \o rp.From \o HeaderTo \o rp.To
    \o NL \o NumberedLines(d.naResp.Articles, 1)

\* C2: for every rule decoded with totalResults above its threshold the
\* notifier is called exactly once, right after the decoding, with the header
\* followed by one numbered line per decoded article, from 1, in order.
C2_NotifiedOnceWithMessage ==
    \A k \in 1..Len(run.log) :
        Above(run.log[k]) =>
            LET d == run.log[k]
            IN  IF run.pc = "notify" /\ run.i = d.i
                THEN /\ CallsFor(d.i) = <<>>
                     /\ run.message = ExpectedMessage(d)
                     /\ k = Len(run.log)
                ELSE /\ Len(CallsFor(d.i)) = 1
                     /\ run.log[k + 1] = CallsFor(d.i)[1]
                     /\ run.log[k + 1].message = ExpectedMessage(d)

C2_Text ==
    <<"<", "!", "c", "h", "a", "n", "n", "e", "l", ">", " ", "K", "e", "y",
      "w", "o", "r", "d", ":", " ", "g", "o", " ", "r", "e", "s", "u", "l",
      "t", "C", "o", "u", "n", "t", ":", " ", "1", "2", " ", "f", "r", "o",
      "m", ":", " ", "2", "0", "2", "0", "-", "0", "2", "-", "2", "8", " ",
      "t", "o", ":", " ", "2", "0", "2", "0", "-", "0", "3", "-", "0", "1",
      "\n", "N", "o", ".", "1", ",", " ", "t", "1", ",", " ", "u", "1",
      "\n", "N", "o", ".", "2", ",", " ", "t", "2", ",", " ", "u", "2",
      "\n">>

C2_Witness ==
    /\ Len(Entries("notify")) = 1
    /\ Entries("notify")[1].message = C2_Text
    /\ run.pc = "returned"

---------------------------------------------------------------------------
(* C3 *)

\* C3: a rule decoded with totalResults at or below its threshold ends the
\* run: it returns the "TotalResult is lower" text carrying the two values,
\* with a nil error, and the notifier is not called for that rule.
C3_LowerReturnsWithoutNotifying ==
    \A k \in 1..Len(run.log) :
        Below(run.log[k]) =>
            LET d == run.log[k]
            IN  /\ run.pc = "returned"
                /\ run.err = "nil"
                /\ run.ret = LowerTotal \o Itoa(d.naResp.TotalResults) \o LowerLimit
                             \o Itoa(keys[d.i].NoticeLowerLimit) \o NL
                /\ CallsFor(d.i) = <<>>

C3_Text ==
    <<"T", "o", "t", "a", "l", "R", "e", "s", "u", "l", "t", " ", "i", "s",
      " ", "l", "o", "w", "e", "r", " ", "N", "o", "t", "i", "c", "e", "L",
      "o", "w", "e", "r", "L", "i", "m", "i", "t", ".", " ", "T", "o", "t",
      "a", "l", "R", "e", "s", "u", "l", "t", ":", "1", ",", " ", "N", "o",
      "t", "i", "c", "e", "L", "o", "w", "e", "r", "L", "i", "m", "i", "t",
      ":", "1", "\n">>

C3_Witness ==
    /\ run.pc = "returned"
    /\ run.ret = C3_Text
    /\ \E k \in 1..Len(run.log) : Below(run.log[k])

---------------------------------------------------------------------------
(* C4 *)

\* C4: once a fatal failure has been reported the process has exited: no
\* status string and no error value were returned, the failing request is the
\* last thing the run did (no notifier call for the keyword whose query
\* failed, nor for a later one) and no step is possible any more.
C4_FatalTerminates ==
    run.printed =>
        /\ run.pc = "exited"
        /\ run.ret = <<>>
        /\ run.err = "unset"
        /\ ~ENABLED Next
        /\ run.log # <<>> =>
             LET last == run.log[Len(run.log)]
             IN  /\ last.op \in {"query", "notify"}
                 /\ last.i = run.i
                 /\ last.op = "query" =>
                      \A k \in 1..Len(run.log) :
                          run.log[k].op = "notify" => run.log[k].i < run.i

C4_Witness ==
    /\ run.printed
    /\ run.i = 2
    /\ run.log[Len(run.log)].op = "query"
    /\ <<"news", 2>> \in run.open
    /\ Len(Entries("notify")) = 1

---------------------------------------------------------------------------
(* C5 *)

\* C5: the status codes of the responses change nothing: the run is, apart
\* from the codes themselves, the run that received 200 every time with the
\* same bodies (same position, queries, notifier calls and returned string).
C5_StatusChangesNothing == Observable(run) = Observable(twin)

C5_Witness ==
    /\ run.pc = "returned"
    /\ run.ret = SuccessNotification
    /\ run.status # StatusOK
    /\ run.hookStatus # StatusOK
    /\ Len(Entries("notify")) = 2

---------------------------------------------------------------------------
(* C6 *)

DigitValue(c) == CHOOSE d \in 0..9 : Digit(d) = c

IsDigit(c) == \E d \in 0..9 : Digit(d) = c

RECURSIVE Number(_)
Number(sq) ==
    IF sq = <<>> THEN 0
    ELSE Number(SubSeq(sq, 1, Len(sq) - 1)) * 10 + DigitValue(sq[Len(sq)])

Leap(y) == (y % 4 = 0 /\ y % 100 # 0) \/ y % 400 = 0

MonthLength(y, m) ==
    IF m = 2 THEN (IF Leap(y) THEN 29 ELSE 28)
    ELSE IF m \in {4, 6, 9, 11} THEN 30 ELSE 31

\* leap years among the years 1 .. y
LeapsUpTo(y) == y \div 4 - y \div 100 + y \div 400

\* days from 1970-01-01 to January 1st of year y
DaysBeforeYear(y) == 365 * (y - 1970) + LeapsUpTo(y - 1) - LeapsUpTo(1969)

RECURSIVE DaysBeforeMonth(_, _)
DaysBeforeMonth(y, m) ==
    IF m <= 1 THEN 0 ELSE DaysBeforeMonth(y, m - 1) + MonthLength(y, m - 1)

\* a calendar date written YYYY-MM-DD
IsDate(sq) ==
    /\ Len(sq) = 10
    /\ sq[5] = "-" /\ sq[8] = "-"
    /\ \A k \in {1, 2, 3, 4, 6, 7, 9, 10} : IsDigit(sq[k])
    /\ Number(SubSeq(sq, 6, 7)) \in 1..12
    /\ Number(SubSeq(sq, 9, 10)) \in
         1..MonthLength(Number(SubSeq(sq, 1, 4)), Number(SubSeq(sq, 6, 7)))

\* the day count of a written date, counted from 1970-01-01
DayOf(sq) ==
    DaysBeforeYear(Number(SubSeq(sq, 1, 4)))
    + DaysBeforeMonth(Number(SubSeq(sq, 1, 4)), Number(SubSeq(sq, 6, 7)))
    + Number(SubSeq(sq, 9, 10)) - 1

\* the day count of the current date in the UTC+9 zone
Today == (now + JSTOffsetHours) \div 24

\* initRequestParameter has run (an exit before it leaves no trace at all)
Resolved ==
    /\ run.pc # "start"
    /\ ~(run.pc = "exited" /\ fetches = 0 /\ run.log = <<>>)

HeaderOf(k) ==
    HeaderKeyword \o keys[run.log[k].i].Keyword \o HeaderResultCount
    \o Itoa(run.log[k - 1].naResp.TotalResults) \o HeaderFrom \o rp.From
    \o HeaderTo \o rp.To \o NL

\* C6: a given From or To passes through unchanged, each on its own; an
\* empty To becomes today's date in the UTC+9 zone and an empty From the date
\* of the day before (so From is one day before To when both were empty);
\* every query and every message header of the run carries the resolved pair.
C6_DatesResolved ==
    /\ ~Resolved => rp = req
    /\ Resolved =>
        /\ req.From # <<>> => rp.From = req.From
        /\ req.To # <<>> => rp.To = req.To
        /\ req.From = <<>> => IsDate(rp.From) /\ DayOf(rp.From) = Today - 1
        /\ req.To = <<>> => IsDate(rp.To) /\ DayOf(rp.To) = Today
        /\ (req.From = <<>> /\ req.To = <<>>) => DayOf(rp.To) - DayOf(rp.From) = 1
        /\ \A k \in 1..Len(run.log) :
             /\ run.log[k].op = "query" =>
                  /\ run.log[k].values.from = rp.From
                  /\ run.log[k].values.to = rp.To
             /\ run.log[k].op = "notify" =>
                  SubSeq(run.log[k].message, 1, Len(HeaderOf(k))) = HeaderOf(k)

C6_Witness ==
    /\ req.From = <<>> /\ req.To = <<>>
    /\ now = UnixHour(2024, 2, 29, 15)
    /\ rp.From = <<"2", "0", "2", "4", "-", "0", "2", "-", "2", "9">>
    /\ rp.To = <<"2", "0", "2", "4", "-", "0", "3", "-", "0", "1">>
    /\ Len(Entries("notify")) = 1
    /\ Entries("query")[1].values.from = rp.From

---------------------------------------------------------------------------
(* C7 *)

\* loadPickupKeys has run
Loaded ==
    \/ run.pc \in {"loop", "notify", "returned", "panicked"}
    \/ run.pc = "exited" /\ (fetches > 0 \/ run.log # <<>>)

BothNames == req.S3BacketName # <<>> /\ req.S3ObjectKey # <<>>

\* C7: the blob is fetched (once) exactly when bucket name and object key are
\* both non-empty; otherwise nothing is fetched and the list is the one inline
\* rule of the request; a blob that is used gives its array, entry by entry in
\* the same order.
C7_KeysLoaded ==
    /\ ~Loaded => fetches = 0 /\ keys = <<>>
    /\ Loaded =>
        /\ fetches = (IF BothNames THEN 1 ELSE 0)
        /\ ~BothNames =>
             keys = << [Keyword |-> req.Keyword,
                        NoticeLowerLimit |-> req.NoticeLowerLimit] >>
        /\ (BothNames /\ s3.kind = "array") =>
             /\ Len(keys) = Len(s3.items)
             /\ \A j \in 1..Len(keys) :
                  /\ keys[j].Keyword =
                       (IF "keyword" \in DOMAIN s3.items[j]
                        THEN s3.items[j].keyword ELSE <<>>)
                  /\ keys[j].NoticeLowerLimit =
                       (IF "noticeLowerLimit" \in DOMAIN s3.items[j]
                        THEN s3.items[j].noticeLowerLimit ELSE 0)

C7_Witness ==
    /\ BothNames
    /\ fetches = 1
    /\ run.pc = "loop"
    /\ Len(keys) = 2
    /\ keys[1] = [Keyword |-> <<"a", "i">>, NoticeLowerLimit |-> 1]
    /\ keys[2] = [Keyword |-> <<"g", "o">>, NoticeLowerLimit |-> 0]

---------------------------------------------------------------------------
(* C8 *)

\* C8: a rule decoded at or below its threshold is the last thing the run
\* does: the run has returned, nothing was queried or notified after it and
\* no step is possible; the notifier calls are for rules 1, 2, ... in order,
\* a prefix of the list.
C8_ReturnsAtFirstLower ==
    /\ \A k \in 1..Len(run.log) :
         Below(run.log[k]) =>
             /\ k = Len(run.log)
             /\ run.pc = "returned"
             /\ ~ENABLED Next
    /\ Len(Entries("notify")) <= Len(keys)
    /\ \A j \in 1..Len(Entries("notify")) : Entries("notify")[j].i = j

C8_Witness ==
    /\ run.pc = "returned"
    /\ Len(keys) = 2
    /\ run.i = 1
    /\ Below(run.log[Len(run.log)])
    /\ Entries("notify") = <<>>

---------------------------------------------------------------------------
(* C9 *)

AllAbove ==
    \A j \in 1..Len(keys) :
        \E k \in 1..Len(run.log) : Above(run.log[k]) /\ run.log[k].i = j

Succeeded == run.pc = "returned" /\ run.ret = SuccessNotification

\* C9: a finished run has returned "Success notification." exactly when no
\* fatal failure was reported and every rule of the list was decoded above
\* its threshold; then the run made one query and one notifier call per rule,
\* each call after the query of its rule and before the query of the next.
C9_SuccessIffAllAbove ==
    /\ ~Terminated => run.ret = <<>>
    /\ Terminated => (Succeeded <=> (~run.printed /\ Loaded /\ AllAbove))
    /\ Succeeded =>
        /\ Len(Entries("query")) = Len(keys)
        /\ Len(Entries("notify")) = Len(keys)
        /\ Len(run.log) = 3 * Len(keys)
        /\ \A j \in 1..Len(keys) :
             /\ run.log[3 * j - 2].op = "query" /\ run.log[3 * j - 2].i = j
             /\ run.log[3 * j - 1].op = "decoded" /\ run.log[3 * j - 1].i = j
             /\ run.log[3 * j].op = "notify" /\ run.log[3 * j].i = j

C9_Witness ==
    /\ Succeeded
    /\ Len(keys) = 2
    /\ Len(Entries("notify")) = 2

---------------------------------------------------------------------------
(* C10 *)

\* C10: when HandleRequest has returned no response body is open, and no
\* webhook response body is open in a process that is still running
\* notificationSlack's caller.
C10_BodiesClosed ==
    /\ run.pc = "returned" => run.open = {}
    /\ run.pc # "exited" => \A b \in run.open : b[1] # "hook"
    /\ run.pc = "notify" => <<"news", run.i>> \in run.open

C10_Witness ==
    /\ run.pc = "returned"
    /\ Len(Entries("query")) = 2
    /\ Len(Entries("notify")) = 1
    /\ run.open = {}

====
